---- MODULE Spec2Model ----
(***************************************************************************)
(* ICP relay session (session.cpp) and the ICP channel contract (icp.hpp). *)
(*                                                                         *)
(* Execution model of the relay: every session has a strand; the handlers  *)
(* of its asynchronous operations (accept, read, write) run on it one at a *)
(* time and each is one action here.  The application io_service is one    *)
(* FIFO queue served by one thread (app_queue); an App action runs its     *)
(* head.                                                                   *)
(* on(hello) is split at the point between the write of peer_id_ and the   *)
(* post of the dedup task, because the dedup task of ANOTHER session reads *)
(* peer_id_ from the application thread without synchronisation: a read    *)
(* that falls into that window is a data race and may see any value.       *)
(***************************************************************************)
EXTENDS Integers, Sequences, FiniteSets, TLC

\* ------------------------------------------------------------------ bounds
MaxReads == 2       \* reads that complete successfully, per session
MaxMsgs == 2        \* buffer_send calls, per session
MaxTime == 6        \* the clock stops here
MaxSeq == 3         \* packet and receipt sequence numbers the contract is offered
MaxPackets == 2     \* largest argument of setmaxpackets
MaxActions == 2     \* peer_actions in one icp_actions message

\* --------------------------------------------------------------- constants
PingInterval == 3   \* fc::seconds(3)
ZeroCode == 0       \* fc::sha256(): the all-zero digest, "no ping recorded"

Sessions == {1, 2}  \* session_id_ values handed out by next_session_id()

RelayId == "relay"          \* relay_->id_
PeerIds == {"peerA", "peerB"}
NoPeer == "none"            \* default-constructed peer_id_
LocalChain == "chainL"      \* chain_plugin.get_chain_id()
ForeignChain == "chainF"

\* fc::sha256::hash(sent): deterministic, injective on the clock values and
\* never the zero digest.
Hash(t) == t + 1

\* The clock starts well after the epoch (time_point() = 0), as now() does.
StartTime == PingInterval

\* ------------------------------------------------------------- icp_message
Hello(id, chain) == [type |-> "hello", id |-> id, chain_id |-> chain]
Ping(sent, code, head) == [type |-> "ping", sent |-> sent, code |-> code, head |-> head]
Pong(sent, code) == [type |-> "pong", sent |-> sent, code |-> code]
AppMsg(n) == [type |-> "icp_actions", seq |-> n]

RemoteHellos ==
    {Hello(id, LocalChain) : id \in PeerIds \cup {RelayId}}
    \cup {Hello("peerA", ForeignChain)}
RemotePings == {Ping(0, c, 1) : c \in {ZeroCode, Hash(0)}}
\* block_id_type: its leading bytes are the block number
BlockId(num) == [num |-> num]

\* block_header::num_from_id
num_from_id(id) == id.num

\* block_header::id()
block_header_id(block_header) == BlockId(block_header.block_num)

\* local head: absent until the channel is opened
NoHead == 0
Heads == {NoHead, 1}

ChannelSeed(seed) == [type |-> "channel_seed", seed |-> seed]

BlockHeaderWithMerklePath(num, path) ==
    [type |-> "block_header_with_merkle_path",
     block_header |-> [block_num |-> num],
     merkle_path |-> path]

PeerActionNames == <<"onpacket", "onreceipt">>

\* n actions of block num with their receipts, aligned index by index
IcpActions(num, n) ==
    [type |-> "icp_actions",
     block_header |-> [block_num |-> num],
     peer_actions |-> [i \in 1..n |-> PeerActionNames[((i - 1) % 2) + 1]],
     actions |-> [i \in 1..n |-> [act |-> i]],
     action_receipts |-> [i \in 1..n |-> [receipt |-> i]],
     action_digests |-> [i \in 1..n |-> [digest |-> i]]]

ChannelSeeds == {ChannelSeed(1)}

\* batches starting at block 2 (one header, or the ids 2, 3 before header
\* 3) and a header 3 on its own
BlockHeaderMsgs ==
    {BlockHeaderWithMerklePath(2, <<>>),
     BlockHeaderWithMerklePath(3, <<BlockId(2), BlockId(3)>>),
     BlockHeaderWithMerklePath(3, <<>>)}

IcpActionsMsgs == {IcpActions(2, n) : n \in 0..MaxActions}

\* the three variants on_message has no case for
OtherVariants == ChannelSeeds \cup BlockHeaderMsgs \cup IcpActionsMsgs
\* a frame fc::raw::unpack cannot decode (unknown tag, truncated payload)
Undecodable == [type |-> "undecodable"]

\* ------------------------------------------------------------------- state
VARIABLES
    session,     \* session_id_ -> the members of that session object
    app_queue,   \* app().get_io_service(): posted tasks, oldest first
    sessions_,   \* relay: the registry for_each_session walks
    peer_head_,  \* relay_->peer_head_
    now,         \* fc::time_point::now(), in seconds
    wire,        \* per session: the frames async_write has delivered
    queued,      \* per session: the messages buffer_send was given, in order
    nread,       \* per session: reads completed without error
    last,        \* the read handler or dedup scan that ran in the last step
    peer,        \* contract: the peer_contract singleton
    meter,       \* contract: the icp_meter singleton
    packets,     \* contract: the packets table, seq -> status
    receipts,    \* contract: the receipts table, seq -> [packet_seq, status]
    accepted,    \* the seq of every packet onpacket has accepted, in order
    call,        \* the contract action called last and whether it committed
    head,        \* local chain: head_block_num of get_head(), NoHead before openchannel
    pushed       \* the transactions push_transaction has submitted, in order

svars == <<session, app_queue, sessions_, peer_head_, now, wire, queued, nread, last>>
cvars == <<peer, meter, packets, receipts, accepted, call>>
hvars == <<head, pushed>>
vars == <<svars, cvars, hvars>>

\* Members after the constructor.  pc is the strand's position: "accept"
\* while async_accept / async_handshake is outstanding, "idle" between
\* handlers, "on_hello" inside on(hello) after the write of peer_id_,
\* "destroyed" after ~session.  writes and reads count the outstanding
\* async_write and async_read operations.
NewSession(id, hello_flags) ==
    [session_id_ |-> id,
     pc |-> "accept",
     ws_ |-> "open",
     state_ |-> "idle",
     out_buffer_ |-> <<>>,
     msg_buffer_ |-> <<>>,
     peer_id_ |-> NoPeer,
     last_sent_ping_ |-> [sent |-> 0, code |-> ZeroCode],
     last_recv_ping_ |-> [code |-> ZeroCode],
     local_head_ |-> 0,
     recv_remote_hello_ |-> hello_flags,
     sent_remote_hello_ |-> hello_flags,
     writes |-> 0,
     reads |-> 0]

NoEvent == [op |-> "none", s |-> 0]

\* the peer_contract singleton as declared (account name left out)
NewPeer ==
    [last_outgoing_packet_seq |-> 0,
     last_incoming_packet_seq |-> 0,
     last_outgoing_receipt_seq |-> 0,
     last_incoming_receipt_seq |-> 0]

\* the icp_meter singleton before setmaxpackes
NewMeter == [max_packets |-> 0, current_packets |-> 0]

\* recv_remote_hello_ and sent_remote_hello_ are declared in session.hpp and
\* are assigned nowhere in session.cpp: their value is whatever the
\* declaration leaves them with, the same for the whole life of a session.
InitRelay ==
    /\ \E flags \in [Sessions -> BOOLEAN] :
          session = [s \in Sessions |-> NewSession(s, flags[s])]
    /\ app_queue = <<>>
    /\ sessions_ = Sessions
    /\ peer_head_ = 0
    /\ now = StartTime
    /\ wire = [s \in Sessions |-> <<>>]
    /\ queued = [s \in Sessions |-> <<>>]
    /\ nread = [s \in Sessions |-> 0]
    /\ last = NoEvent
    /\ peer = NewPeer
    /\ meter = NewMeter
    /\ packets = <<>>
    /\ receipts = <<>>
    /\ accepted = <<>>
    /\ call = [op |-> "none"]
    /\ pushed = <<>>

\* the relay starts before the channel is opened
Init == InitRelay /\ head = NoHead

\* ---------------------------------------------------------- session methods
\* on_error and close(): ws_->next_layer().close()
close(r) == IF r.ws_ = "open" THEN [r EXCEPT !.ws_ = "closed"] ELSE r

\* ws_->close(close_code::bad_payload)
close_bad_payload(r) == IF r.ws_ = "open" THEN [r EXCEPT !.ws_ = "bad_payload"] ELSE r

\* send(msg): pack into out_buffer_, then send(): state_ = sending_state and
\* one more async_write on out_buffer_
send(r, msg) ==
    [r EXCEPT !.out_buffer_ = <<msg>>, !.state_ = "sending", !.writes = @ + 1]

do_hello(r) == send(r, Hello(RelayId, LocalChain))

do_read(r) == [r EXCEPT !.reads = @ + 1]

send_pong_returns(r) == r.last_recv_ping_.code # ZeroCode

send_pong(r, t) ==
    IF r.last_recv_ping_.code = ZeroCode THEN r
    ELSE [send(r, Pong(t, r.last_recv_ping_.code)) EXCEPT !.last_recv_ping_.code = ZeroCode]

send_ping_returns(r, t) == ~(t - r.last_sent_ping_.sent < PingInterval)

\* send_ping without the check that the previous ping was answered
send_ping_unanswered(r, t) ==
    IF t - r.last_sent_ping_.sent < PingInterval THEN r
    ELSE send([r EXCEPT !.last_sent_ping_ = [sent |-> t, code |-> Hash(t)]],
              Ping(t, Hash(t), r.local_head_))

send_ping(r, t) ==
    IF t - r.last_sent_ping_.sent < PingInterval THEN r
    ELSE IF r.last_sent_ping_.code = ZeroCode
         THEN send([r EXCEPT !.last_sent_ping_ = [sent |-> t, code |-> Hash(t)]],
                   Ping(t, Hash(t), r.local_head_))
         ELSE r

\* the pump without its two "in process of sending" returns
maybe_send_unguarded(r, t) ==
    IF ~r.recv_remote_hello_ \/ ~r.sent_remote_hello_ THEN r
    ELSE IF send_pong_returns(r) THEN send_pong(r, t)
    ELSE IF send_ping_returns(r, t) THEN send_ping(r, t)
    ELSE IF r.msg_buffer_ # <<>>
         THEN [send(r, Head(r.msg_buffer_)) EXCEPT !.msg_buffer_ = Tail(@)]
         ELSE r

maybe_send_next_message(r, t) ==
    IF r.state_ = "sending" THEN r
    ELSE IF Len(r.out_buffer_) > 0 THEN r
    ELSE IF ~r.recv_remote_hello_ \/ ~r.sent_remote_hello_ THEN r
    ELSE IF send_pong_returns(r) THEN send_pong(r, t)
    ELSE IF send_ping_returns(r, t) THEN send_ping(r, t)
    ELSE IF r.msg_buffer_ # <<>>
         THEN [send(r, Head(r.msg_buffer_)) EXCEPT !.msg_buffer_ = Tail(@)]
         ELSE r

\* push_front instead of push_back
buffer_send_front(r, msg) == [r EXCEPT !.msg_buffer_ = <<msg>> \o @]

buffer_send(r, msg) == [r EXCEPT !.msg_buffer_ = Append(@, msg)]

\* on(hello): TRUE when the handler returns through one of its close() calls
hello_rejected(hi) == hi.chain_id # LocalChain \/ hi.id = RelayId

\* on(hello) without the connect-to-self check
on_hello_any_id(r, hi) ==
    IF hi.chain_id # LocalChain THEN close(r)
    ELSE [r EXCEPT !.peer_id_ = hi.id]

on_hello(r, hi) ==
    IF hi.chain_id # LocalChain THEN close(r)
    ELSE IF hi.id = RelayId THEN close(r)
    ELSE [r EXCEPT !.peer_id_ = hi.id]

on_ping(r, p) == [r EXCEPT !.last_recv_ping_ = [code |-> p.code]]

\* on(pong) resetting the recorded ping whatever the code
on_pong_unchecked(r, p) == [r EXCEPT !.last_sent_ping_.code = ZeroCode]

on_pong(r, p) ==
    IF p.code # r.last_sent_ping_.code THEN close(r)
    ELSE [r EXCEPT !.last_sent_ping_.code = ZeroCode]

\* tasks posted to the application io_service
DedupTask(s) == [task |-> "dedup", self |-> s]
PeerHeadTask(s, h) == [task |-> "peer_head", self |-> s, head |-> h]
ReadTask(s) == [task |-> "do_read", self |-> s]
CloseTask(s) == [task |-> "on_session_close", self |-> s]

\* wait_on_app posting the re-arm task twice
wait_on_app_twice(s) == <<ReadTask(s), ReadTask(s)>>

\* wait_on_app: one task, which will call do_read on the strand
wait_on_app(s) == <<ReadTask(s)>>

\* on_message: the switch on msg.which(), then maybe_send_next_message; the
\* default case closes with bad_payload and returns before the pump.
Handled(msg) == msg.type \in {"hello", "ping", "pong"}

on(r, msg) ==
    CASE msg.type = "hello" -> on_hello(r, msg)
      [] msg.type = "ping" -> on_ping(r, msg)
      [] msg.type = "pong" -> on_pong(r, msg)

on_message(r, msg, t) ==
    IF Handled(msg) THEN maybe_send_next_message(on(r, msg), t)
    ELSE close_bad_payload(r)

\* what the handlers called from on_message post to the application loop
posted(r, msg) ==
    CASE msg.type = "hello" /\ ~hello_rejected(msg) -> <<DedupTask(r.session_id_)>>
      [] msg.type = "ping" -> <<PeerHeadTask(r.session_id_, msg.head)>>
      [] OTHER -> <<>>

\* the task that calls relay_->push_transaction(vector<action>{a})
PushTask(s, a) == [task |-> "push_transaction", self |-> s, action |-> a]

\* payload of the transaction on(icp_actions) posts for peer_actions[i]
icp_action(action, action_receipt, block_id, action_digests) ==
    [action |-> action, action_receipt |-> action_receipt,
     block_id |-> block_id, action_digests |-> action_digests]

\* on(channel_seed): posts one openchannel
on_channel_seed(s, m) == <<PushTask(s, [name |-> "openchannel", data |-> m.seed])>>

\* the number the batch b starts at
first_num(b) ==
    IF b.merkle_path # <<>> THEN num_from_id(Head(b.merkle_path))
    ELSE b.block_header.block_num

\* on(block_header_with_merkle_path) with h = get_head() as read in the
\* handler: posts one addblocks when the batch starts at h + 1
on_block_header_with_merkle_path(s, b, h) ==
    IF h = NoHead THEN <<>>
    ELSE IF first_num(b) # h + 1 THEN <<>>
    ELSE <<PushTask(s, [name |-> "addblocks", data |-> b])>>

\* on(icp_actions): posts one addblock, then one transaction per
\* peer_actions[i]
on_icp_actions(s, ia) ==
    <<PushTask(s, [name |-> "addblock", data |-> ia.block_header])>>
    \o [i \in 1..Len(ia.peer_actions) |->
          PushTask(s, [name |-> ia.peer_actions[i],
                       data |-> icp_action(ia.actions[i], ia.action_receipts[i],
                                           block_header_id(ia.block_header), ia.action_digests)])]

\* the handler of each of the three variants: what it posts
on_variant(s, m, h) ==
    CASE m.type = "channel_seed" -> on_channel_seed(s, m)
      [] m.type = "block_header_with_merkle_path" -> on_block_header_with_merkle_path(s, m, h)
      [] m.type = "icp_actions" -> on_icp_actions(s, m)

\* the local head after the transaction of action a: openchannel seeds the
\* fork store, addblocks and addblock extend the head when they link to it
\* and fail otherwise, the other actions leave it alone
push_transaction(h, a) ==
    CASE a.name = "openchannel" -> IF h = NoHead THEN a.data ELSE h
      [] a.name = "addblocks" ->
            IF h # NoHead /\ first_num(a.data) = h + 1
            THEN a.data.block_header.block_num ELSE h
      [] a.name = "addblock" ->
            IF h # NoHead /\ a.data.block_num = h + 1 THEN h + 1 ELSE h
      [] OTHER -> h

\* ------------------------------------------------------------------ inputs
\* a code no ping of this relay carries
BadCode == Hash(MaxTime + 1)

RemotePongs(r) == {Pong(0, c) : c \in {ZeroCode, r.last_sent_ping_.code, BadCode}}

Inbound(r) == RemoteHellos \cup RemotePings \cup RemotePongs(r) \cup OtherVariants

\* ----------------------------------------------------------------- actions
MsgEvent(op, s, m) == [op |-> op, s |-> s, msg |-> m]

\* the async_accept / async_handshake handler without error: do_hello();
\* do_read()
DoAccept(s) ==
    /\ session[s].pc = "accept"
    /\ session' = [session EXCEPT ![s] = [do_read(do_hello(@)) EXCEPT !.pc = "idle"]]
    /\ last' = NoEvent
    /\ UNCHANGED <<app_queue, sessions_, peer_head_, now, wire, queued, nread, cvars, hvars>>

\* the same handler with ec set: on_error
DoAcceptError(s) ==
    /\ session[s].pc = "accept"
    /\ session' = [session EXCEPT ![s] = [close(@) EXCEPT !.pc = "idle"]]
    /\ last' = NoEvent
    /\ UNCHANGED <<app_queue, sessions_, peer_head_, now, wire, queued, nread, cvars, hvars>>

\* the async_read handler without error, for every message but an accepted
\* hello: unpack, on_message, consume, wait_on_app
OnRead(s) ==
    /\ session[s].pc = "idle"
    /\ session[s].reads > 0
    /\ session[s].ws_ = "open"
    /\ nread[s] < MaxReads
    /\ \E m \in Inbound(session[s]) :
          /\ m.type = "hello" => hello_rejected(m)
          /\ LET r == [session[s] EXCEPT !.reads = @ - 1] IN
                /\ session' = [session EXCEPT ![s] = on_message(r, m, now)]
                /\ app_queue' = app_queue \o posted(r, m) \o wait_on_app(s)
          /\ last' = MsgEvent("read", s, m)
    /\ nread' = [nread EXCEPT ![s] = @ + 1]
    /\ UNCHANGED <<sessions_, peer_head_, now, wire, queued, cvars, hvars>>

\* the async_read handler running on(msg) for one of the three variants:
\* unpack, the handler and the pump, consume, wait_on_app
OnReadVariant(s) ==
    /\ session[s].pc = "idle"
    /\ session[s].reads > 0
    /\ session[s].ws_ = "open"
    /\ nread[s] < MaxReads
    /\ \E m \in OtherVariants :
          /\ LET r == [session[s] EXCEPT !.reads = @ - 1] IN
                /\ session' = [session EXCEPT ![s] = maybe_send_next_message(r, now)]
                /\ app_queue' = app_queue \o on_variant(s, m, head) \o wait_on_app(s)
          /\ last' = MsgEvent("read", s, m)
    /\ nread' = [nread EXCEPT ![s] = @ + 1]
    /\ UNCHANGED <<sessions_, peer_head_, now, wire, queued, cvars, hvars>>

\* the async_read handler for a hello that on(hello) accepts, up to and
\* including the assignment of peer_id_
OnReadHello(s) ==
    /\ session[s].pc = "idle"
    /\ session[s].reads > 0
    /\ session[s].ws_ = "open"
    /\ nread[s] < MaxReads
    /\ \E m \in RemoteHellos :
          /\ ~hello_rejected(m)
          /\ session' = [session EXCEPT ![s] =
                [on_hello([@ EXCEPT !.reads = @ - 1], m) EXCEPT !.pc = "on_hello"]]
          /\ last' = MsgEvent("read", s, m)
    /\ nread' = [nread EXCEPT ![s] = @ + 1]
    /\ UNCHANGED <<app_queue, sessions_, peer_head_, now, wire, queued, cvars, hvars>>

\* the rest of that handler: check_for_redundant_connection posts the scan, on_message runs the pump, do_read's handler posts wait_on_app
OnReadHelloDone(s) ==
    /\ session[s].pc = "on_hello"
    /\ session' = [session EXCEPT ![s] =
          [maybe_send_next_message(@, now) EXCEPT !.pc = "idle"]]
    /\ app_queue' = app_queue \o <<DedupTask(s)>> \o wait_on_app(s)
    /\ last' = NoEvent
    /\ UNCHANGED <<sessions_, peer_head_, now, wire, queued, nread, cvars, hvars>>

\* the async_read handler when unpack throws: catch (...) closes with
\* bad_payload and does not re-arm the read
OnReadUndecodable(s) ==
    /\ session[s].pc = "idle"
    /\ session[s].reads > 0
    /\ session[s].ws_ = "open"
    /\ nread[s] < MaxReads
    /\ session' = [session EXCEPT ![s] = close_bad_payload([@ EXCEPT !.reads = @ - 1])]
    /\ last' = MsgEvent("read", s, Undecodable)
    /\ nread' = [nread EXCEPT ![s] = @ + 1]
    /\ UNCHANGED <<app_queue, sessions_, peer_head_, now, wire, queued, cvars, hvars>>

\* the async_read handler with ec set because the socket was closed under
\* the read: on_error
OnReadAborted(s) ==
    /\ session[s].pc = "idle"
    /\ session[s].reads > 0
    /\ session[s].ws_ # "open"
    /\ session' = [session EXCEPT ![s] = close([@ EXCEPT !.reads = @ - 1])]
    /\ last' = NoEvent
    /\ UNCHANGED <<app_queue, sessions_, peer_head_, now, wire, queued, nread, cvars, hvars>>

\* the async_read handler with ec set because the transport failed: on_error
OnReadError(s) ==
    /\ session[s].pc = "idle"
    /\ session[s].reads > 0
    /\ session[s].ws_ = "open"
    /\ session' = [session EXCEPT ![s] = close([@ EXCEPT !.reads = @ - 1])]
    /\ last' = NoEvent
    /\ UNCHANGED <<app_queue, sessions_, peer_head_, now, wire, queued, nread, cvars, hvars>>

\* the async_write handler without error: the bytes out_buffer_ holds now are
\* on the wire; state_ = idle_state, out_buffer_.resize(0), the pump
OnWrite(s) ==
    /\ session[s].pc = "idle"
    /\ session[s].writes > 0
    /\ session[s].ws_ = "open"
    /\ wire' = [wire EXCEPT ![s] = @ \o session[s].out_buffer_]
    /\ session' = [session EXCEPT ![s] =
          maybe_send_next_message(
             [@ EXCEPT !.writes = @ - 1, !.state_ = "idle", !.out_buffer_ = <<>>], now)]
    /\ last' = NoEvent
    /\ UNCHANGED <<app_queue, sessions_, peer_head_, now, queued, nread, cvars, hvars>>

\* the async_write handler with ec set because the socket was closed under
\* the write: close and on_error; state_ and out_buffer_ stay as they are
OnWriteAborted(s) ==
    /\ session[s].pc = "idle"
    /\ session[s].writes > 0
    /\ session[s].ws_ # "open"
    /\ session' = [session EXCEPT ![s] = close([@ EXCEPT !.writes = @ - 1])]
    /\ last' = NoEvent
    /\ UNCHANGED <<app_queue, sessions_, peer_head_, now, wire, queued, nread, cvars, hvars>>

\* the async_write handler with ec set because the transport failed
OnWriteError(s) ==
    /\ session[s].pc = "idle"
    /\ session[s].writes > 0
    /\ session[s].ws_ = "open"
    /\ session' = [session EXCEPT ![s] = close([@ EXCEPT !.writes = @ - 1])]
    /\ last' = NoEvent
    /\ UNCHANGED <<app_queue, sessions_, peer_head_, now, wire, queued, nread, cvars, hvars>>

\* the coordinator hands the session its next application message
BufferSend(s) ==
    /\ session[s].pc \in {"accept", "idle"}
    /\ Len(queued[s]) < MaxMsgs
    /\ LET m == AppMsg(Len(queued[s]) + 1) IN
          /\ session' = [session EXCEPT ![s] = buffer_send(@, m)]
          /\ queued' = [queued EXCEPT ![s] = Append(@, m)]
    /\ last' = NoEvent
    /\ UNCHANGED <<app_queue, sessions_, peer_head_, now, wire, nread, cvars, hvars>>

Tick ==
    /\ now < MaxTime
    /\ now' = now + 1
    /\ last' = NoEvent
    /\ UNCHANGED <<session, app_queue, sessions_, peer_head_, wire, queued, nread, cvars, hvars>>

\* ------------------------------------------------- application loop tasks
Rest == Tail(app_queue)

\* wait_on_app's task: self->do_read() on the strand
AppDoRead ==
    /\ app_queue # <<>>
    /\ Head(app_queue).task = "do_read"
    /\ LET self == Head(app_queue).self IN
          /\ session[self].pc = "idle"
          /\ session' = [session EXCEPT ![self] = do_read(@)]
          /\ last' = NoEvent
    /\ app_queue' = Rest
    /\ UNCHANGED <<sessions_, peer_head_, now, wire, queued, nread, cvars, hvars>>

\* for_each_session: the registered sessions that still exist
for_each_session == {s \in sessions_ : session[s].pc # "destroyed"}

\* s->peer_id_ == self->peer_id_ as the application thread can read it: while
\* either strand is between its write of peer_id_ and its next post the read
\* is unsynchronised and the comparison may come out either way
peer_id_equal(s, self) ==
    IF session[s].pc = "on_hello" \/ session[self].pc = "on_hello"
    THEN BOOLEAN
    ELSE {session[s].peer_id_ = session[self].peer_id_}

\* the scan closing the session it found instead of the one that runs it
redundant_close_found(s, self) == s

\* the session the scan closes when it finds s redundant with self
redundant_close(s, self) == self

\* the task check_for_redundant_connection posts
AppDedup ==
    /\ app_queue # <<>>
    /\ Head(app_queue).task = "dedup"
    /\ LET self == Head(app_queue).self
           others == for_each_session \ {self}
       IN \E eq \in [others -> BOOLEAN] :
             /\ \A s \in others : eq[s] \in peer_id_equal(s, self)
             /\ LET closing == {redundant_close(s, self) : s \in {x \in others : eq[x]}} IN
                   /\ session' = [x \in Sessions |->
                         IF x \in closing THEN close(session[x]) ELSE session[x]]
                   /\ last' = [op |-> "dedup", s |-> self,
                               found |-> {x \in others : eq[x]}]
    /\ app_queue' = Rest
    /\ UNCHANGED <<sessions_, peer_head_, now, wire, queued, nread, cvars, hvars>>

\* the task on(ping) posts
AppPeerHead ==
    /\ app_queue # <<>>
    /\ Head(app_queue).task = "peer_head"
    /\ peer_head_' = Head(app_queue).head
    /\ last' = NoEvent
    /\ app_queue' = Rest
    /\ UNCHANGED <<session, sessions_, now, wire, queued, nread, cvars, hvars>>

\* the task ~session posts: relay->on_session_close(s)
AppSessionClose ==
    /\ app_queue # <<>>
    /\ Head(app_queue).task = "on_session_close"
    /\ sessions_' = sessions_ \ {Head(app_queue).self}
    /\ last' = NoEvent
    /\ app_queue' = Rest
    /\ UNCHANGED <<session, peer_head_, now, wire, queued, nread, cvars, hvars>>

\* the task on(channel_seed), on(block_header_with_merkle_path) and
\* on(icp_actions) post: relay_->push_transaction
AppPush ==
    /\ app_queue # <<>>
    /\ Head(app_queue).task = "push_transaction"
    /\ pushed' = Append(pushed, [action |-> Head(app_queue).action, head |-> head])
    /\ head' = push_transaction(head, Head(app_queue).action)
    /\ last' = NoEvent
    /\ app_queue' = Rest
    /\ UNCHANGED <<session, sessions_, peer_head_, now, wire, queued, nread, cvars>>

\* a continuation or posted task that captured self = shared_from_this()
Referenced(s) ==
    \/ session[s].pc \in {"accept", "on_hello"}
    \/ session[s].writes > 0
    \/ session[s].reads > 0
    \/ \E i \in 1..Len(app_queue) :
          app_queue[i].self = s /\ app_queue[i].task # "on_session_close"

\* ~session calling relay->on_session_close itself instead of posting it
Destroy_unposted(s) ==
    /\ session[s].pc = "idle"
    /\ ~Referenced(s)
    /\ session' = [session EXCEPT ![s].pc = "destroyed"]
    /\ sessions_' = sessions_ \ {s}
    /\ last' = NoEvent
    /\ UNCHANGED <<app_queue, peer_head_, now, wire, queued, nread, cvars, hvars>>

\* ~session without the post of on_session_close
Destroy_silent(s) ==
    /\ session[s].pc = "idle"
    /\ ~Referenced(s)
    /\ session' = [session EXCEPT ![s].pc = "destroyed"]
    /\ last' = NoEvent
    /\ UNCHANGED <<app_queue, sessions_, peer_head_, now, wire, queued, nread, cvars, hvars>>

\* ~session: the last owning reference is gone
Destroy(s) ==
    /\ session[s].pc = "idle"
    /\ ~Referenced(s)
    /\ session' = [session EXCEPT ![s].pc = "destroyed"]
    /\ app_queue' = Append(app_queue, CloseTask(s))
    /\ last' = NoEvent
    /\ UNCHANGED <<sessions_, peer_head_, now, wire, queued, nread, cvars, hvars>>

\* ---------------------------------------------------------- icp contract
\* Each action of the contract is one transaction: it commits, or it aborts
\* and leaves every table as it was (call records which).
Abort(op) ==
    /\ call' = [op |-> op, ok |-> FALSE]
    /\ UNCHANGED <<peer, meter, packets, receipts, accepted>>

meter_add_packets(m, num) == [m EXCEPT !.current_packets = @ + num]

meter_remove_packets(m, num) ==
    [m EXCEPT !.current_packets = IF num > @ THEN 0 ELSE @ - num]

setmaxpackes(maxpackets) ==
    /\ meter' = [meter EXCEPT !.max_packets = maxpackets]
    /\ call' = [op |-> "setmaxpackes", ok |-> TRUE]
    /\ UNCHANGED <<peer, packets, receipts, accepted>>

sendaction(seq) ==
    IF meter.current_packets = meter.max_packets
       \/ seq # peer.last_outgoing_packet_seq + 1
    THEN Abort("sendaction")
    ELSE /\ packets' = [s \in DOMAIN packets \cup {seq} |->
                           IF s = seq THEN "unreceipted" ELSE packets[s]]
         /\ peer' = [peer EXCEPT !.last_outgoing_packet_seq = seq]
         /\ meter' = meter_add_packets(meter, 1)
         /\ call' = [op |-> "sendaction", ok |-> TRUE]
         /\ UNCHANGED <<receipts, accepted>>

\* onpacket without the sequence check
onpacket_any_seq(seq, proved, expired) ==
    IF ~proved
    THEN Abort("onpacket")
    ELSE /\ peer' = [peer EXCEPT !.last_incoming_packet_seq = seq]
         /\ accepted' = Append(accepted, seq)
         /\ call' = [op |-> "onpacket", ok |-> TRUE, seq |-> seq]
         /\ UNCHANGED <<meter, packets, receipts>>

\* proved: the referenced block is in the fork store at or below lib and the
\* action digests reconstruct its action_mroot
onpacket(seq, proved, expired) ==
    IF ~proved \/ seq # peer.last_incoming_packet_seq + 1
    THEN Abort("onpacket")
    ELSE LET rseq == peer.last_outgoing_receipt_seq + 1 IN
         /\ receipts' = [s \in DOMAIN receipts \cup {rseq} |->
                            IF s = rseq
                            THEN [packet_seq |-> seq,
                                  status |-> IF expired THEN "expired" ELSE "executed"]
                            ELSE receipts[s]]
         /\ peer' = [peer EXCEPT !.last_incoming_packet_seq = seq,
                                 !.last_outgoing_receipt_seq = rseq]
         /\ accepted' = Append(accepted, seq)
         /\ call' = [op |-> "onpacket", ok |-> TRUE, seq |-> seq]
         /\ UNCHANGED <<meter, packets>>

\* a receipt of the peer for local packet pseq
onreceipt(seq, pseq, proved, expired) ==
    IF \/ ~proved
       \/ seq # peer.last_incoming_receipt_seq + 1
       \/ pseq \notin DOMAIN packets
       \/ (pseq \in DOMAIN packets /\ packets[pseq] # "unreceipted")
    THEN Abort("onreceipt")
    ELSE /\ packets' = [packets EXCEPT ![pseq] = IF expired THEN "expired" ELSE "receipted"]
         /\ peer' = [peer EXCEPT !.last_incoming_receipt_seq = seq]
         /\ meter' = meter_remove_packets(meter, 1)
         /\ call' = [op |-> "onreceipt", ok |-> TRUE]
         /\ UNCHANGED <<receipts, accepted>>

\* erase the packets start..end: they are the oldest stored ones, without a
\* hole, and each is terminal
cleanup(start_seq, end_seq) ==
    LET range == start_seq..end_seq IN
    IF \/ start_seq > end_seq
       \/ ~(range \subseteq DOMAIN packets)
       \/ \E s \in DOMAIN packets : s < start_seq
       \/ \E s \in range \cap DOMAIN packets : packets[s] = "unreceipted"
    THEN Abort("cleanup")
    ELSE /\ packets' = [s \in DOMAIN packets \ range |-> packets[s]]
         /\ call' = [op |-> "cleanup", ok |-> TRUE]
         /\ UNCHANGED <<peer, meter, receipts, accepted>>

closechannel ==
    /\ peer' = NewPeer
    /\ meter' = NewMeter
    /\ packets' = <<>>
    /\ receipts' = <<>>
    /\ accepted' = <<>>
    /\ call' = [op |-> "closechannel", ok |-> TRUE]

Seqs == 1..MaxSeq

SetMaxPackets == (\E n \in 0..MaxPackets : setmaxpackes(n)) /\ UNCHANGED <<svars, hvars>>
SendAction == (\E seq \in Seqs : sendaction(seq)) /\ UNCHANGED <<svars, hvars>>
OnPacket ==
    (\E seq \in Seqs, proved \in BOOLEAN, expired \in BOOLEAN :
        onpacket(seq, proved, expired)) /\ UNCHANGED <<svars, hvars>>
OnReceipt ==
    (\E seq \in Seqs, pseq \in Seqs, proved \in BOOLEAN, expired \in BOOLEAN :
        onreceipt(seq, pseq, proved, expired)) /\ UNCHANGED <<svars, hvars>>
Cleanup == (\E a \in Seqs, b \in Seqs : cleanup(a, b)) /\ UNCHANGED <<svars, hvars>>
CloseChannel == closechannel /\ UNCHANGED <<svars, hvars>>

NextContract ==
    \/ SetMaxPackets
    \/ SendAction
    \/ OnPacket
    \/ OnReceipt
    \/ Cleanup
    \/ CloseChannel

\* the contract is called on its own; the relay's sessions stay as constructed
InitContract == Init /\ \A s \in Sessions : ~session[s].recv_remote_hello_

SpecContract == InitContract /\ [][NextContract]_vars

\* One session at work (the other never gets past its handshake), every
\* message and the clock.
Next ==
    \/ DoAccept(1)
    \/ DoAcceptError(1)
    \/ OnRead(1)
    \/ OnReadHello(1)
    \/ OnReadHelloDone(1)
    \/ OnReadUndecodable(1)
    \/ OnReadAborted(1)
    \/ OnReadError(1)
    \/ OnWrite(1)
    \/ OnWriteAborted(1)
    \/ OnWriteError(1)
    \/ BufferSend(1)
    \/ Destroy(1)
    \/ AppDoRead
    \/ AppDedup
    \/ AppPeerHead
    \/ AppSessionClose
    \/ Tick

Spec == Init /\ [][Next]_vars

\* Both sessions at work, exchanging hellos with their peers over
\* transports that stay up: a session is closed by the relay or not at all.
NextDedup ==
    \/ \E s \in Sessions :
          \/ DoAccept(s)
          \/ OnReadHello(s)
          \/ OnReadHelloDone(s)
          \/ OnReadAborted(s)
          \/ OnWrite(s)
          \/ OnWriteAborted(s)
          \/ Destroy(s)
    \/ AppDoRead
    \/ AppDedup
    \/ AppSessionClose

SpecDedup == Init /\ [][NextDedup]_vars

\* the relay with the channel closed or open at block 1; the hello flags as
\* the constructor leaves them
InitChain ==
    /\ InitRelay
    /\ \A s \in Sessions : ~session[s].recv_remote_hello_
    /\ head \in Heads

\* One session receiving every message on a transport that stays up, in a
\* relay whose channel may be open.
NextChain ==
    \/ DoAccept(1)
    \/ OnRead(1)
    \/ OnReadHello(1)
    \/ OnReadHelloDone(1)
    \/ OnReadAborted(1)
    \/ OnWrite(1)
    \/ OnWriteAborted(1)
    \/ AppDoRead
    \/ AppDedup
    \/ AppPeerHead

SpecChain == InitChain /\ [][NextChain]_vars

\* The handlers of channel_seed, block_header_with_merkle_path and
\* icp_actions at work on both sessions.  on_message has no case that calls
\* them; here the read handler runs them on the decoded message the way it
\* runs on(hello), on(ping) and on(pong).
NextHandlers ==
    \/ \E s \in Sessions :
          \/ DoAccept(s)
          \/ OnReadVariant(s)
          \/ OnWrite(s)
    \/ AppDoRead
    \/ AppPush

SpecHandlers == InitChain /\ [][NextHandlers]_vars

\* ================================================================== claims
IsApp(m) == m.type = "icp_actions"

\* C1: on every session at most one async_write is outstanding; a write is
\* started only from state_ = idle with out_buffer_ empty (in the pre-state,
\* or right after the completion handler of the previous write has reset
\* both), and out_buffer_ changes under an outstanding write only in the
\* handler that completes it.
C1_OneWriteInFlight ==
    /\ [](\A s \in Sessions : session[s].writes <= 1)
    /\ [][\A s \in Sessions :
            /\ session'[s].writes > session[s].writes =>
                  /\ session[s].writes = 0
                  /\ session[s].state_ = "idle"
                  /\ session[s].out_buffer_ = <<>>
            /\ (session[s].writes > 0 /\ session'[s].out_buffer_ # session[s].out_buffer_) =>
                  /\ wire'[s] = Append(wire[s], Head(session[s].out_buffer_))
                  /\ session'[s].writes <= 1
         ]_vars

\* C1 witness: the hello has been written and the pump has a pong, ping or
\* application message in flight
C1_Witness ==
    /\ session[1].writes = 1
    /\ session[1].state_ = "sending"
    /\ Len(wire[1]) >= 1
    /\ wire[1][1].type = "hello"
    /\ session[1].out_buffer_ # <<>>
    /\ IsApp(Head(session[1].out_buffer_))

Written(s) == SelectSeq(wire[s], IsApp)

InFlight(s) == SelectSeq(session[s].out_buffer_, IsApp)

\* C2: the application messages on the wire of a session are, in order, the
\* first ones buffer_send was given: the k-th written is the k-th enqueued.
\* Written, in flight and still queued messages together are exactly the
\* enqueued ones in enqueue order, so none is skipped or written twice.
C2_QueueOrder ==
    \A s \in Sessions :
       /\ Len(Written(s)) <= Len(queued[s])
       /\ \A k \in 1..Len(Written(s)) : Written(s)[k] = queued[s][k]
       /\ Written(s) \o InFlight(s) \o session[s].msg_buffer_ = queued[s]

\* C2 witness: two application messages are on the wire with a pong or a
\* ping of the pump between them
C2_Witness ==
    \E i, j, k \in 1..Len(wire[1]) :
       /\ i < j /\ j < k
       /\ wire[1][i] = AppMsg(1)
       /\ wire[1][j].type \in {"ping", "pong"}
       /\ wire[1][k] = AppMsg(2)

Open(s) == session[s].pc # "destroyed" /\ session[s].ws_ = "open"

\* the step is the dedup scan of self, and it found the older session s
ScanFoundOlder(self, s) ==
    /\ last'.op = "dedup"
    /\ last'.s = self
    /\ s \in last'.found
    /\ s < self
    /\ Open(s)
    /\ Open(self)

\* C3 as claimed: when the scan of a session that accepted a hello finds an
\* older registered session with the same peer_id, it closes the older
\* session and leaves the newer one open.
C3_ClosesOlder ==
    [][\A self, s \in Sessions :
          ScanFoundOlder(self, s) => (~Open(s))' /\ Open(self)']_vars

\* C3 as amended: in that case the scan closes the newer session, the one
\* that accepted the hello and posted the scan, and leaves the older session
\* as it was.
C3_ClosesNewer ==
    [][\A self, s \in Sessions :
          ScanFoundOlder(self, s) =>
             /\ session'[self].ws_ = "closed"
             /\ session'[s] = session[s]
             /\ Open(s)']_vars

\* C3 witness: the scan of session 2 has just found session 1 with the same
\* peer_id; 2 is closed and 1 is open
C3_Witness ==
    /\ last.op = "dedup"
    /\ last.s = 2
    /\ 1 \in last.found
    /\ session[1].peer_id_ = session[2].peer_id_
    /\ session[2].ws_ = "closed"
    /\ Open(1)

DedupPending == \E i \in 1..Len(app_queue) : app_queue[i].task = "dedup"

\* both sessions have accepted a hello of the same peer and every scan that
\* was posted has run
SamePeerSettled ==
    /\ \A s \in Sessions : session[s].peer_id_ = "peerA" /\ session[s].pc # "on_hello"
    /\ ~DedupPending

\* C4: for two sessions of the same peer_id, once every posted dedup task has
\* run exactly one of the two is open.
C4_ExactlyOneRemains ==
    SamePeerSettled => Cardinality({s \in Sessions : Open(s)}) = 1

\* the step is the read handler of session s for message m (for an accepted
\* hello: its first part)
ReadStep(s, m) == last' = MsgEvent("read", s, m)

Dedups(q) == SelectSeq(q, LAMBDA task : task.task = "dedup")

\* C5: a hello of another chain, or with the relay's own id, closes the
\* session, leaves peer_id_ as it was and posts no dedup scan; any other
\* hello sets peer_id_ to its id and leaves the session open.
C5_HelloCheck ==
    [][\A s \in Sessions, m \in RemoteHellos :
          ReadStep(s, m) =>
             IF m.chain_id # LocalChain \/ m.id = RelayId
             THEN /\ session'[s].ws_ = "closed"
                  /\ session'[s].peer_id_ = session[s].peer_id_
                  /\ session'[s].pc = "idle"
                  /\ Dedups(app_queue') = Dedups(app_queue)
             ELSE /\ session'[s].peer_id_ = m.id
                  /\ session'[s].ws_ = "open"
                  /\ session'[s].pc = "on_hello"
       ]_vars

\* C5 witness: a session that had a peer_id has just been closed by a hello
\* carrying the relay's own id
C5_Witness ==
    /\ last = MsgEvent("read", 1, Hello(RelayId, LocalChain))
    /\ session[1].ws_ = "closed"
    /\ session[1].peer_id_ = "peerA"

\* C6: a message other than hello that arrives before the remote hello closes
\* the session with bad_payload.
C6_FirstMustBeHello ==
    \A s \in Sessions :
       (/\ last.op = "read"
        /\ last.s = s
        /\ last.msg.type # "hello"
        /\ nread[s] = 1)
       => session[s].ws_ = "bad_payload"

\* C7: a pong closes the session exactly when its code differs from
\* last_sent_ping_.code; a pong with that code leaves the session open and
\* resets last_sent_ping_.code, so that the pump may send a new ping (which
\* it does in the same handler when the last ping is 3 s old).
C7_PongCode ==
    [][\A s \in Sessions, c \in {ZeroCode, BadCode} \cup {Hash(t) : t \in 0..MaxTime} :
          ReadStep(s, Pong(0, c)) =>
             IF c # session[s].last_sent_ping_.code
             THEN session'[s].ws_ = "closed"
             ELSE /\ session'[s].ws_ = "open"
                  /\ \/ session'[s].last_sent_ping_.code = ZeroCode
                     \/ /\ session'[s].last_sent_ping_ = [sent |-> now, code |-> Hash(now)]
                        /\ now - session[s].last_sent_ping_.sent >= PingInterval
                        /\ session'[s].out_buffer_ = <<Ping(now, Hash(now), 0)>>
       ]_vars

\* C7 witness: the pong of an outstanding ping has just arrived; the session
\* is open and no ping is recorded any more
C7_Witness ==
    /\ last.op = "read"
    /\ last.s = 1
    /\ last.msg.type = "pong"
    /\ last.msg.code # ZeroCode
    /\ session[1].ws_ = "open"
    /\ session[1].last_sent_ping_.code = ZeroCode
    /\ session[1].last_sent_ping_.sent > 0

\* C8: a channel_seed, block_header_with_merkle_path or icp_actions received
\* after the hello exchange is handled; bad_payload is for what cannot be
\* decoded.
C8_AllVariantsHandled ==
    \A s \in Sessions :
       (/\ last.op = "read"
        /\ last.s = s
        /\ last.msg \in OtherVariants
        /\ session[s].peer_id_ # NoPeer)
       => session[s].ws_ # "bad_payload"

\* C9: the packets onpacket has accepted are 1, 2, ..., last_incoming_packet_seq
\* in this order; onpacket commits only for seq = last_incoming_packet_seq + 1
\* and then advances the cursor by one; an aborted onpacket leaves the peer
\* record (and the list of accepted packets) unchanged.
C9_ContiguousPackets ==
    /\ [](/\ Len(accepted) = peer.last_incoming_packet_seq
          /\ \A k \in 1..Len(accepted) : accepted[k] = k)
    /\ [][call'.op = "onpacket" =>
            IF call'.ok
            THEN /\ call'.seq = peer.last_incoming_packet_seq + 1
                 /\ peer'.last_incoming_packet_seq = peer.last_incoming_packet_seq + 1
                 /\ accepted' = Append(accepted, call'.seq)
            ELSE peer' = peer /\ accepted' = accepted
       ]_vars

\* C9 witness: onpacket has accepted all the packets it was offered, and its
\* last call was an attempt that aborted
C9_Witness ==
    /\ accepted = <<1, 2, 3>>
    /\ peer.last_incoming_packet_seq = 3
    /\ call = [op |-> "onpacket", ok |-> FALSE]

\* C10: current_packets <= max_packets after every action of the contract.
C10_MeterWithinMax == meter.current_packets <= meter.max_packets

Operational(r) == r.recv_remote_hello_ /\ r.sent_remote_hello_

NoWriteInFlight(r) == r.state_ = "idle" /\ r.out_buffer_ = <<>>

\* what the priority rule of the pump selects for the members r at time t
PumpRule(r, t) ==
    IF r.last_recv_ping_.code # ZeroCode THEN "pong"
    ELSE IF r.last_sent_ping_.code = ZeroCode
            /\ t - r.last_sent_ping_.sent >= PingInterval THEN "ping"
    ELSE IF r.msg_buffer_ # <<>> THEN "icp_actions"
    ELSE "none"

\* what a run of the pump from r0 to r1 has handed to async_write
Emitted(r0, r1) ==
    IF r1.writes = r0.writes THEN "none" ELSE Head(r1.out_buffer_).type

\* the step of session s runs the pump: it is the completion handler of a
\* write, the second part of on(hello), or the read handler of a ping, a
\* pong or a rejected hello
WriteCompletes(s) == wire'[s] # wire[s]

HelloCompletes(s) == session[s].pc = "on_hello" /\ session'[s].pc = "idle"

ReadPumps(s) ==
    /\ last'.op = "read"
    /\ last'.s = s
    /\ session'[s].pc = "idle"
    /\ Handled(last'.msg)

PumpRuns(s) == WriteCompletes(s) \/ HelloCompletes(s) \/ ReadPumps(s)

\* the members the pump of that step starts from
PumpInput(s) ==
    IF WriteCompletes(s)
    THEN [session[s] EXCEPT !.writes = @ - 1, !.state_ = "idle", !.out_buffer_ = <<>>]
    ELSE IF HelloCompletes(s) THEN session[s]
    ELSE on([session[s] EXCEPT !.reads = @ - 1], last'.msg)

\* C11: every run of the pump on an operational session with no write in
\* flight hands to async_write exactly what the priority rule selects: the
\* pong, else a new ping when none is unanswered and the last one is 3 s
\* old, else the head of msg_buffer_, else nothing.
C11_PumpPriority ==
    [][\A s \in Sessions :
          (/\ PumpRuns(s)
           /\ Operational(PumpInput(s))
           /\ NoWriteInFlight(PumpInput(s))) =>
             LET r0 == PumpInput(s) IN
             /\ Emitted(r0, session'[s]) = PumpRule(r0, now)
             /\ Emitted(r0, session'[s]) = "icp_actions" =>
                   /\ session'[s].out_buffer_ = <<Head(r0.msg_buffer_)>>
                   /\ session'[s].msg_buffer_ = Tail(r0.msg_buffer_)
       ]_vars

\* The session and the application loop of Next with the clock standing:
\* no step of the relay waits for time to pass.
NextLive ==
    \/ DoAccept(1)
    \/ DoAcceptError(1)
    \/ OnRead(1)
    \/ OnReadHello(1)
    \/ OnReadHelloDone(1)
    \/ OnReadUndecodable(1)
    \/ OnReadAborted(1)
    \/ OnReadError(1)
    \/ OnWrite(1)
    \/ OnWriteAborted(1)
    \/ OnWriteError(1)
    \/ BufferSend(1)
    \/ Destroy(1)
    \/ AppDoRead
    \/ AppDedup
    \/ AppPeerHead
    \/ AppSessionClose

\* What the scheduling of the relay guarantees: a write that was started
\* completes, a handler whose operation was cancelled runs, a handler that
\* has begun finishes, the application loop runs the tasks posted to it and
\* an object nothing refers to is destroyed.  What the peer sends, and when,
\* is not under the relay's control.
Fairness ==
    /\ WF_vars(OnWrite(1))
    /\ WF_vars(OnWriteAborted(1))
    /\ WF_vars(OnReadAborted(1))
    /\ WF_vars(OnReadHelloDone(1))
    /\ WF_vars(AppDoRead)
    /\ WF_vars(AppDedup)
    /\ WF_vars(AppPeerHead)
    /\ WF_vars(AppSessionClose)
    /\ WF_vars(Destroy(1))

SpecLive == Init /\ [][NextLive]_vars /\ Fairness

\* the session has written its hello and accepted the hello of its peer
HelloExchanged(s) ==
    /\ Len(wire[s]) >= 1
    /\ wire[s][1].type = "hello"
    /\ session[s].peer_id_ # NoPeer
    /\ session[s].pc = "idle"

\* C12: after the hello exchange a session becomes operational (both hello
\* flags set), and the k-th application message buffer_send was given is
\* eventually on the wire, unless the transport goes down first.
C12_EventuallyWritten ==
    \A s \in Sessions :
       /\ [](HelloExchanged(s) => <>(Operational(session[s]) \/ ~Open(s)))
       /\ \A k \in 1..MaxMsgs :
             []((HelloExchanged(s) /\ Len(queued[s]) >= k)
                   => <>(Len(Written(s)) >= k \/ ~Open(s)))

IsPing(m) == m.type = "ping"

\* the pings the session has handed to async_write, oldest first
SentPings(s) == SelectSeq(wire[s] \o session[s].out_buffer_, IsPing)

\* the step records a new ping in last_sent_ping_
NewPing(s) ==
    /\ session'[s].last_sent_ping_ # session[s].last_sent_ping_
    /\ session'[s].last_sent_ping_.code # ZeroCode

\* C13: a new ping is sent only when no ping is unanswered (no code is
\* recorded, or the pong read in this very step carries the recorded code)
\* and the previous ping is at least 3 s old; so the pings of a session are
\* at least 3 s apart, and the recorded code is that of the last ping sent,
\* the only one that can be unanswered.
C13_OnePingInFlight ==
    /\ [](\A s \in Sessions :
             /\ \A i \in 1..Len(SentPings(s)) - 1 :
                   SentPings(s)[i + 1].sent - SentPings(s)[i].sent >= PingInterval
             /\ session[s].last_sent_ping_.code # ZeroCode =>
                   /\ SentPings(s) # <<>>
                   /\ SentPings(s)[Len(SentPings(s))].code = session[s].last_sent_ping_.code
                   /\ SentPings(s)[Len(SentPings(s))].sent = session[s].last_sent_ping_.sent)
    /\ [][\A s \in Sessions :
             NewPing(s) =>
                /\ now - session[s].last_sent_ping_.sent >= PingInterval
                /\ session'[s].last_sent_ping_ = [sent |-> now, code |-> Hash(now)]
                /\ session'[s].out_buffer_ = <<Ping(now, Hash(now), session[s].local_head_)>>
                /\ \/ session[s].last_sent_ping_.code = ZeroCode
                   \/ ReadStep(s, Pong(0, session[s].last_sent_ping_.code))
       ]_vars

\* C13 witness: a second ping is in flight, 3 s after the first, whose pong
\* has arrived
C13_Witness ==
    /\ Len(SentPings(1)) = 2
    /\ SentPings(1)[2].sent - SentPings(1)[1].sent = PingInterval
    /\ session[1].last_sent_ping_.code = SentPings(1)[2].code
    /\ session[1].writes = 1

ReadTasks(s) == SelectSeq(app_queue, LAMBDA task : task = ReadTask(s))

\* the step is the application loop running the wait_on_app task of s
ReArmTaskRuns(s) ==
    /\ app_queue # <<>>
    /\ Head(app_queue) = ReadTask(s)
    /\ app_queue' = Tail(app_queue)

\* C14: a session has at most one async_read outstanding, and never a read
\* outstanding together with a re-arm task in the application queue.  A read
\* is armed by the accept handler (the first) or by the wait_on_app task run
\* by the application loop, never by the handler that dispatched a message:
\* that handler leaves no read outstanding and one re-arm task posted, so no
\* second message is dispatched before the task has run.
C14_OneReadReArmedByApp ==
    /\ [](\A s \in Sessions : session[s].reads + Len(ReadTasks(s)) <= 1)
    /\ [][\A s \in Sessions :
             /\ session'[s].reads > session[s].reads =>
                   /\ session[s].reads = 0
                   /\ session[s].pc = "accept" \/ ReArmTaskRuns(s)
             /\ nread'[s] > nread[s] =>
                   /\ session'[s].reads = 0
                   /\ session'[s].pc = "idle" => Len(ReadTasks(s))' <= 1
       ]_vars

\* C14 witness: the second message has been dispatched, the re-arm task of
\* the first having run, and its own re-arm task waits in the queue
C14_Witness ==
    /\ nread[1] = 2
    /\ last.op = "read"
    /\ last.s = 1
    /\ session[1].reads = 0
    /\ Len(ReadTasks(1)) = 1

\* the thread of the application io_service; a strand is named by its session
AppThread == 0

\* where a task posted to the application io_service executes: wait_on_app
\* binds its task to the strand of the session, the other posts bind nothing
Executor(task) == IF task.task = "do_read" THEN task.self ELSE AppThread

\* the sessions whose members the task reads or writes: do_read arms a read
\* on ws_ of self; the scan compares peer_id_ of self with that of every
\* registered session and calls close() of self; the peer_head and
\* on_session_close tasks use relay members only
Touches(task) ==
    CASE task.task = "do_read" -> {task.self}
      [] task.task = "dedup" -> for_each_session \cup {task.self}
      [] OTHER -> {}

\* the step is the application io_service running the task at its head
TaskRuns == app_queue # <<>> /\ app_queue' = Tail(app_queue)

\* C15: a task that reads or writes members of a session executes on the
\* strand of that session.
C15_OnStrandOnly ==
    [][TaskRuns => \A s \in Touches(Head(app_queue)) : Executor(Head(app_queue)) = s]_vars

\* C16: the registry is scanned and changed, peer_head_ is written and a
\* transaction is submitted only in a step in which the application
\* io_service runs the task posted for it (the scan, the peer_head task, a
\* push_transaction task, the on_session_close task), never in a step of a
\* read, write or accept handler or of the destructor.
C16_CoordinatorInTasks ==
    [][/\ last'.op = "dedup" => TaskRuns /\ Head(app_queue).task = "dedup"
       /\ peer_head_' # peer_head_ => TaskRuns /\ Head(app_queue).task = "peer_head"
       /\ (pushed' # pushed \/ head' # head) =>
             TaskRuns /\ Head(app_queue).task = "push_transaction"
       /\ sessions_' # sessions_ => TaskRuns /\ Head(app_queue).task = "on_session_close"
      ]_vars

\* C16 witness: the head a ping carried has reached peer_head_, and the
\* session, destroyed since, is out of the registry
C16_Witness ==
    /\ peer_head_ = 1
    /\ session[1].pc = "destroyed"
    /\ 1 \notin sessions_

IsPush(task) == task.task = "push_transaction"

\* the push_transaction tasks the step has posted, in the order of posting
NewPushes ==
    SelectSeq(SubSeq(app_queue', Len(app_queue) + 1, Len(app_queue')), IsPush)

\* C17: the read handler of an icp_actions message with n peer_actions posts
\* n + 1 transactions: first the addblock of its block header, then for
\* i = 1..n the action peer_actions[i] carrying icp_action{actions[i],
\* action_receipts[i], id of the block, action_digests}; the application
\* loop, a FIFO, submits them in this order.
C17_ActionsInOrder ==
    [][\A s \in Sessions, m \in IcpActionsMsgs :
          (ReadStep(s, m) /\ session[s].peer_id_ # NoPeer) =>
             /\ Len(NewPushes) = Len(m.peer_actions) + 1
             /\ NewPushes[1].action = [name |-> "addblock", data |-> m.block_header]
             /\ \A i \in 1..Len(m.peer_actions) :
                   NewPushes[i + 1].action =
                      [name |-> m.peer_actions[i],
                       data |-> [action |-> m.actions[i],
                                 action_receipt |-> m.action_receipts[i],
                                 block_id |-> BlockId(m.block_header.block_num),
                                 action_digests |-> m.action_digests]]
       ]_vars

\* C18: the read handler of a block_header_with_merkle_path message posts
\* one addblocks transaction carrying the message when the local head exists
\* and the batch starts at head + 1 (the number of the first merkle_path id,
\* or of the header when the path is empty); otherwise it posts nothing; in
\* both cases the session stays open.
C18_AddBlocksWhenLinkable ==
    [][\A s \in Sessions, m \in BlockHeaderMsgs :
          (ReadStep(s, m) /\ session[s].peer_id_ # NoPeer) =>
             LET first == IF m.merkle_path # <<>> THEN Head(m.merkle_path).num
                          ELSE m.block_header.block_num
             IN /\ IF head # NoHead /\ first = head + 1
                   THEN /\ Len(NewPushes) = 1
                        /\ NewPushes[1].action = [name |-> "addblocks", data |-> m]
                   ELSE NewPushes = <<>>
                /\ session'[s].ws_ = "open"
       ]_vars

Closed(s) == session[s].ws_ # "open"

\* C20: a closed transport stays closed; on a closed session no write
\* reaches the wire, no message is read and dispatched and no read or write
\* is started that could complete; and the session is eventually destroyed
\* and removed from the registry by its on_session_close task.
C20_CloseIsTerminal ==
    /\ [][\A s \in Sessions :
             Closed(s) =>
                /\ Closed(s)'
                /\ wire'[s] = wire[s]
                /\ nread'[s] = nread[s]
                /\ ~ReadPumps(s)
                /\ sessions_' # sessions_ =>
                      /\ TaskRuns
                      /\ Head(app_queue).task = "on_session_close"
       ]_vars
    /\ \A s \in Sessions :
          [](Closed(s) => <>(session[s].pc = "destroyed" /\ s \notin sessions_))

\* C20 witness: a session closed with bad_payload has been destroyed and its
\* on_session_close task has taken it out of the registry
C20_Witness ==
    /\ session[1].ws_ = "bad_payload"
    /\ session[1].pc = "destroyed"
    /\ 1 \notin sessions_
    /\ app_queue = <<>>

====
